---- MODULE Spec2Model ----
(***************************************************************************)
(* Model of babou (surreal number forms): the conversion layer, the        *)
(* canonical dyadic forms, the transfinite forms, the surreal sets and the *)
(* comparison, addition, subtraction and division operators, as Python     *)
(* evaluates them.                                                         *)
(*                                                                         *)
(* Python objects are records tagged by their class name in field k.       *)
(* Every evaluation yields an object, the NotImplemented signal or an      *)
(* exception ([k |-> "exc"]); a recursion that runs out of stack yields    *)
(* RecursionError, the stack being modelled by the depth argument f.       *)
(***************************************************************************)
EXTENDS Integers, Sequences, FiniteSets, TLC

\* ---------------------------------------------------------------- bounds
MaxInt == 3          \* integers -MaxInt..MaxInt are drawn as inputs
MaxDenExp == 2       \* fractions with denominator 2^1..2^MaxDenExp
MaxAddend == 2       \* offsets n of the omega + n forms drawn as inputs
MaxDepth == 22       \* interpreter stack: nested operator evaluations

\* ------------------------------------------------------- python objects
PyBool(v) == [k |-> "bool", v |-> v]
PyInt(v) == [k |-> "int", v |-> v]
PyFloat(n, d) == [k |-> "float", n |-> n, d |-> d]
PyFraction(n, d) == [k |-> "Fraction", n |-> n, d |-> d]
PyStr == [k |-> "str"]
PyNone == [k |-> "NoneType"]
PyList(items) == [k |-> "list", items |-> items]
NotImplemented == [k |-> "NotImplemented"]
Exc(e) == [k |-> "exc", e |-> e]

IsExc(r) == r.k = "exc"

\* ------------------------------------------------------ exact rationals
Abs(n) == IF n < 0 THEN -n ELSE n

RECURSIVE GCD(_, _)
GCD(m, n) == IF n = 0 THEN Abs(m) ELSE GCD(n, m % n)

\* fractions.Fraction(n, d): lowest terms, positive denominator
Fraction(n, d) ==
    LET s == IF d < 0 THEN -1 ELSE 1
        g == GCD(Abs(n), Abs(d))
    IN  <<(s * n) \div g, (s * d) \div g>>

FrLe(p, q) == p[1] * q[2] <= q[1] * p[2]
FrLt(p, q) == p[1] * q[2] < q[1] * p[2]
FrEq(p, q) == p[1] * q[2] = q[1] * p[2]

\* val & (val - 1) == 0
RECURSIVE is_power_of_2(_)
is_power_of_2(val) ==
    IF val < 0 THEN FALSE
    ELSE IF val <= 1 THEN TRUE
    ELSE IF val % 2 = 1 THEN FALSE
    ELSE is_power_of_2(val \div 2)

is_dyadic(fr) == is_power_of_2(Abs(fr[2]))

\* --------------------------------------------------------- surreal forms
IntegerSurreal(v) == [k |-> "IntegerSurreal", v |-> v]
DyadicFractionSurreal(fr) == [k |-> "DyadicFractionSurreal", n |-> fr[1], d |-> fr[2]]
OmegaType(sign) == [k |-> "OmegaType", sign |-> sign]
OmegaPlusInteger(addend) == [k |-> "OmegaPlusInteger", addend |-> addend]
BasicSurreal(l, r) == [k |-> "BasicSurreal", left |-> l, right |-> r]

OMEGA == OmegaType(1)
NEGATIVE_OMEGA == OmegaType(-1)

EmptySurrealSet == [k |-> "EmptySurrealSet"]
ExplicitSurrealSet(items) == [k |-> "ExplicitSurrealSet", items |-> items]
DYADICS == [k |-> "DyadicsType"]

SurrealKinds == {"IntegerSurreal", "DyadicFractionSurreal", "OmegaType",
                 "OmegaPlusInteger", "BasicSurreal"}
SetKinds == {"EmptySurrealSet", "ExplicitSurrealSet", "DyadicsType"}

IsSurreal(o) == o.k \in SurrealKinds
IsSurrealSet(o) == o.k \in SetKinds
IsDyadicSurreal(o) == o.k \in {"IntegerSurreal", "DyadicFractionSurreal"}

\* the _value of a canonical dyadic form, as an exact rational
Value(o) == IF o.k = "IntegerSurreal" THEN <<o.v, 1>> ELSE <<o.n, o.d>>

\* the items a finite set iterates over
Items(s) == IF s.k = "ExplicitSurrealSet" THEN s.items ELSE <<>>

\* ------------------------------------------------------ left / right sets
left(o) ==
    CASE o.k = "IntegerSurreal" ->
            IF o.v > 0 THEN ExplicitSurrealSet(<<IntegerSurreal(o.v - 1)>>)
            ELSE EmptySurrealSet
      [] o.k = "DyadicFractionSurreal" ->
            ExplicitSurrealSet(<<DyadicFractionSurreal(Fraction(o.n - 1, o.d))>>)
      [] o.k = "OmegaType" ->
            IF o.sign > 0 THEN DYADICS ELSE EmptySurrealSet
      [] o.k = "OmegaPlusInteger" ->
            IF o.addend = 1 THEN ExplicitSurrealSet(<<OMEGA>>)
            ELSE IF o.addend > 1
                 THEN ExplicitSurrealSet(<<OmegaPlusInteger(o.addend - 1)>>)
            ELSE IF o.addend = -1 THEN DYADICS
            ELSE ExplicitSurrealSet(<<OmegaPlusInteger(o.addend + 1)>>)
      [] o.k = "BasicSurreal" -> o.left

right(o) ==
    CASE o.k = "IntegerSurreal" ->
            IF o.v < 0 THEN ExplicitSurrealSet(<<IntegerSurreal(o.v + 1)>>)
            ELSE EmptySurrealSet
      [] o.k = "DyadicFractionSurreal" ->
            ExplicitSurrealSet(<<DyadicFractionSurreal(Fraction(o.n + 1, o.d))>>)
      [] o.k = "OmegaType" ->
            IF o.sign > 0 THEN EmptySurrealSet ELSE DYADICS
      [] o.k = "OmegaPlusInteger" ->
            IF o.addend = -1 THEN ExplicitSurrealSet(<<OMEGA>>)
            ELSE IF o.addend >= 1 THEN EmptySurrealSet
            ELSE ExplicitSurrealSet(<<OmegaPlusInteger(o.addend + 1)>>)
      [] o.k = "BasicSurreal" -> o.right

\* Surreal.is_dyadic of each form (BasicSurreal raises NotImplementedError)
form_is_dyadic(o) == IsDyadicSurreal(o)

\* ------------------------------------------------------------ conversion
from_int(v) == IntegerSurreal(v)

from_fraction(fr) ==
    IF fr[2] = 1 THEN from_int(fr[1])
    ELSE IF is_dyadic(fr) THEN DyadicFractionSurreal(fr)
    ELSE Exc("NotImplementedError")

\* a float is held as the exact rational it stores
from_float(fr) ==
    IF fr[2] = 1 THEN from_int(fr[1]) ELSE from_fraction(fr)

from_string == Exc("NotImplementedError")

convert(value) ==
    IF IsSurreal(value) THEN value
    ELSE IF value.k = "int" THEN from_int(value.v)
    ELSE IF value.k = "float" THEN from_float(<<value.n, value.d>>)
    ELSE IF value.k = "str" THEN from_string
    ELSE IF value.k = "Fraction" THEN from_fraction(<<value.n, value.d>>)
    ELSE Exc("TypeError")

\* ExplicitSurrealSet.__init__: a list is converted item by item; a single
\* number is not iterable and becomes the one item; a string iterates into
\* strings, which from_string rejects
ExplicitSurrealSet_init(items) ==
    CASE items.k = "list" ->
            LET c == [i \in 1..Len(items.items) |-> convert(items.items[i])]
                bad == {i \in 1..Len(c) : IsExc(c[i])}
            IN  IF bad = {} THEN ExplicitSurrealSet(c)
                ELSE c[CHOOSE i \in bad : \A j \in bad : i <= j]
      [] items.k = "str" -> from_string
      [] items.k \in {"int", "float", "Fraction"} \/ IsSurreal(items) ->
            LET c == convert(items)
            IN  IF IsExc(c) THEN c ELSE ExplicitSurrealSet(<<c>>)
      [] OTHER -> Exc("TypeError")

\* Surreal(left, right): SurrealMeta.__call__ with two arguments, which is
\* BasicSurreal.__init__
BasicSurreal_init(l, r) ==
    LET ls == IF IsSurrealSet(l) THEN l ELSE ExplicitSurrealSet_init(l)
        rs == IF IsSurrealSet(r) THEN r ELSE ExplicitSurrealSet_init(r)
    IN  CASE IsExc(ls) -> ls
          [] IsExc(rs) -> rs
          [] OTHER -> BasicSurreal(ls, rs)

\* truth value of a comparison result (bool, or IntegerSurreal.__bool__)
Truthy(r) == IF r.k = "bool" THEN r.v
             ELSE IF r.k = "IntegerSurreal" THEN r.v # 0
             ELSE TRUE

\* operator.__op__ on two exact rationals
NativeCmp(op, p, q) ==
    CASE op = "eq" -> FrEq(p, q)
      [] op = "le" -> FrLe(p, q)
      [] op = "lt" -> FrLt(p, q)
      [] op = "ge" -> FrLe(q, p)
      [] op = "gt" -> FrLt(q, p)

CmpOps == {"eq", "le", "lt", "ge", "gt"}

\* operator.__op__(p, q) on two ints (ty = "int") or two Fractions
NativeOp(op, p, q, ty) ==
    IF op \in CmpOps THEN PyBool(NativeCmp(op, p, q))
    ELSE LET r == CASE op = "add" -> Fraction(p[1] * q[2] + q[1] * p[2], p[2] * q[2])
                    [] op = "sub" -> Fraction(p[1] * q[2] - q[1] * p[2], p[2] * q[2])
                    [] op = "truediv" ->
                         IF q[1] = 0 THEN <<0, 1>>
                         ELSE Fraction(p[1] * q[2], p[2] * q[1])
         IN  IF op = "truediv" /\ q[1] = 0 THEN Exc("ZeroDivisionError")
             ELSE IF ty = "Fraction" THEN PyFraction(r[1], r[2])
             ELSE IF op = "truediv" THEN PyFloat(r[1], r[2])
             ELSE PyInt(r[1])

\* the reflected method Python tries when a method returns NotImplemented
Reflected(op) ==
    CASE op = "eq" -> "eq"
      [] op = "le" -> "ge"
      [] op = "lt" -> "gt"
      [] op = "ge" -> "le"
      [] op = "gt" -> "lt"

\* OmegaType.__add__
OmegaType_add(self, other) ==
    IF other.k \in {"int", "IntegerSurreal"}
    THEN IF other.v = 0 THEN Exc("ValueError") ELSE OmegaPlusInteger(other.v)
    ELSE Exc("NotImplementedError")

\* ------------------------------------------------- comparison operators
\* the decorator's treatment of the operand: a Surreal is passed through, any
\* other object is converted, and a TypeError from the conversion becomes
\* NotImplemented (another exception propagates)
surreal_binary_op(other) ==
    IF IsSurreal(other) THEN other
    ELSE LET c == convert(other)
         IN  IF c.k = "exc" /\ c.e = "TypeError" THEN NotImplemented ELSE c

\* Python's "r1 and r2": r1 when it raised or is falsy, otherwise r2 (which
\* is evaluated only then)
And(r1, r2) ==
    CASE r1.k = "exc" -> r1
      [] ~Truthy(r1) -> r1
      [] OTHER -> r2

\* Python's "r1 and not r2"
AndNot(r1, r2) ==
    CASE r1.k = "exc" -> r1
      [] ~Truthy(r1) -> r1
      [] r2.k = "exc" -> r2
      [] OTHER -> PyBool(~Truthy(r2))

\* one step of all(...): an exception propagates, a falsy item ends the
\* iteration with False, otherwise the iteration goes on
AllStep(r, rest) ==
    CASE r.k = "exc" -> r
      [] ~Truthy(r) -> PyBool(FALSE)
      [] OTHER -> rest

\* one step of "item in list": an exception propagates, a truthy == ends the
\* search with True, otherwise the search goes on
ContainsStep(r, rest) ==
    CASE r.k = "exc" -> r
      [] Truthy(r) -> PyBool(TRUE)
      [] OTHER -> rest

\* the interpreter's choice between the method's result, the reflected
\* method's result and the fallback when both are NotImplemented
BinaryDispatch(r1, r2, fallback) ==
    CASE r1 # NotImplemented -> r1
      [] r2 # NotImplemented -> r2
      [] OTHER -> fallback

\* Set.__or__ of two finite sets, "a | b": ExplicitSurrealSet(chain(a, b));
\* an exception raised while a or b is evaluated propagates
SetUnion(a, b) ==
    CASE a.k = "exc" -> a
      [] b.k = "exc" -> b
      [] OTHER -> ExplicitSurrealSet(Items(a) \o Items(b))

\* BasicSurreal(l, r) with two SurrealSet arguments
NewBasicSurreal(l, r) ==
    CASE l.k = "exc" -> l
      [] r.k = "exc" -> r
      [] OTHER -> BasicSurreal(l, r)

\* one step of ExplicitSurrealSet(<generator>): the item is computed and
\* converted, then the rest of the generator
CollectStep(r, rest) ==
    CASE r.k = "exc" -> r
      [] convert(r).k = "exc" -> convert(r)
      [] rest.k = "exc" -> rest
      [] OTHER -> ExplicitSurrealSet(<<convert(r)>> \o Items(rest))

RECURSIVE PyCmp(_, _, _, _, _)
RECURSIVE Method(_, _, _, _, _)
RECURSIVE Surreal_method(_, _, _, _, _)
RECURSIVE IntegerSurreal_binary_op(_, _, _, _, _)
RECURSIVE DyadicFractionSurreal_binary_op(_, _, _, _, _)
RECURSIVE DyadicFractionSurreal_lt(_, _, _, _)
RECURSIVE DyadicFractionSurreal_gt(_, _, _, _)
RECURSIVE FiniteSurrealSet_cmp(_, _, _, _, _)
RECURSIVE ExplicitSurrealSet_contains(_, _, _, _)
RECURSIVE DyadicsType_lt(_, _)
RECURSIVE PyArith(_, _, _, _)
RECURSIVE FiniteSurrealSet_arith(_, _, _, _, _, _)

\* "other is self": OMEGA and NEGATIVE_OMEGA are module singletons; for any
\* other form the caller says whether both operands are one object
Is(self, other, same) ==
    IF self.k = "OmegaType" /\ other.k = "OmegaType"
    THEN self.sign = other.sign
    ELSE same

\* Python's evaluation of "a op b": the method of a, then the reflected
\* method of b, then identity (==) or TypeError (ordering).  Between two
\* Surreal operands, and for a finite set on the left, the method of a never
\* returns NotImplemented, so its result is the result.
PyCmp(op, a, b, same, f) ==
    CASE f = 0 -> Exc("RecursionError")
      [] a.k \in {"EmptySurrealSet", "ExplicitSurrealSet"} ->
            FiniteSurrealSet_cmp(op, Items(a), 1, b, f - 1)
      [] IsSurreal(a) /\ IsSurreal(b) -> Method(op, a, b, same, f - 1)
      [] OTHER ->
            BinaryDispatch(Method(op, a, b, same, f - 1),
                           Method(Reflected(op), b, a, same, f - 1),
                           IF op = "eq" THEN PyBool(Is(a, b, same))
                           ELSE Exc("TypeError"))

\* type(a).__op__(a, b)
Method(op, a, b, same, f) ==
    CASE a.k = "IntegerSurreal" -> IntegerSurreal_binary_op(op, a, b, same, f)
      [] a.k = "DyadicFractionSurreal" /\ op = "lt" ->
            DyadicFractionSurreal_lt(a, b, same, f)
      [] a.k = "DyadicFractionSurreal" /\ op = "gt" ->
            DyadicFractionSurreal_gt(a, b, same, f)
      [] a.k = "DyadicFractionSurreal" ->
            DyadicFractionSurreal_binary_op(op, a, b, same, f)
      [] a.k = "OmegaType" /\ op = "add" -> OmegaType_add(a, b)
      [] a.k \in {"OmegaType", "OmegaPlusInteger", "BasicSurreal"} ->
            Surreal_method(op, a, b, same, f)
      [] a.k \in {"EmptySurrealSet", "ExplicitSurrealSet"} ->
            FiniteSurrealSet_cmp(op, Items(a), 1, b, f)
      [] a.k = "DyadicsType" /\ op = "lt" -> DyadicsType_lt(b, f)
      [] a.k = "DyadicsType" /\ op = "eq" ->
            IF b.k = "DyadicsType" THEN PyBool(TRUE) ELSE NotImplemented
      [] a.k = "DyadicsType" -> Exc("TransfiniteError")

\* Surreal.__eq__, __le__, __ge__, __lt__, __gt__, __add__ and __sub__ as
\* decorated: a non-Surreal operand is converted first, and the method runs
\* on the converted operand
Surreal_method(op, self, other, same, f) ==
    CASE ~IsSurreal(other) ->
            LET c == surreal_binary_op(other)
            IN  IF IsSurreal(c) THEN Surreal_method(op, self, c, FALSE, f) ELSE c
      [] op = "eq" /\ Is(self, other, same) -> PyBool(TRUE)
      [] op = "eq" ->
            And(PyCmp("le", self, other, FALSE, f),
                PyCmp("le", other, self, FALSE, f))
      [] op = "le" ->
            And(PyCmp("lt", left(self), other, FALSE, f),
                PyCmp("lt", self, right(other), FALSE, f))
      [] op = "ge" -> PyCmp("le", other, self, FALSE, f)
      [] op = "lt" ->
            AndNot(PyCmp("le", self, other, FALSE, f),
                   PyCmp("le", other, self, FALSE, f))
      [] op = "gt" ->
            AndNot(PyCmp("le", other, self, FALSE, f),
                   PyCmp("le", self, other, FALSE, f))
      [] op = "add" ->
            NewBasicSurreal(
                SetUnion(PyArith("add", left(self), other, f),
                         PyArith("add", self, left(other), f)),
                SetUnion(PyArith("add", right(self), other, f),
                         PyArith("add", self, right(other), f)))
      [] op = "sub" ->
            NewBasicSurreal(
                SetUnion(PyArith("sub", left(self), other, f),
                         PyArith("sub", self, right(other), f)),
                SetUnion(PyArith("sub", right(self), other, f),
                         PyArith("sub", self, left(other), f)))

\* IntegerSurreal._binary_op: an int result (a bool is an int) is wrapped
\* into an IntegerSurreal, any other result is returned as it is; for another
\* Surreal it calls getattr(super(), opname), which is the Surreal method or
\* the abstract numbers.Complex.__truediv__
IntegerSurreal_binary_op(op, self, other, same, f) ==
    CASE other.k \in {"IntegerSurreal", "int"} ->
            LET result == NativeOp(op, <<self.v, 1>>, <<other.v, 1>>, "int")
            IN  CASE result.k = "bool" -> IntegerSurreal(IF result.v THEN 1 ELSE 0)
                  [] result.k = "int" -> IntegerSurreal(result.v)
                  [] OTHER -> result
      [] IsSurreal(other) /\ op = "truediv" -> Exc("NotImplementedError")
      [] IsSurreal(other) -> Surreal_method(op, self, other, same, f)
      [] OTHER -> NotImplemented

\* DyadicFractionSurreal._binary_op: a bool is returned as it is, a number
\* is converted back with Surreal(result); for another Surreal as above
DyadicFractionSurreal_binary_op(op, self, other, same, f) ==
    CASE other.k \in {"DyadicFractionSurreal", "Fraction"} ->
            LET result == NativeOp(op, Value(self), <<other.n, other.d>>, "Fraction")
            IN  IF result.k = "Fraction" THEN convert(result) ELSE result
      [] IsSurreal(other) /\ op = "truediv" -> Exc("NotImplementedError")
      [] IsSurreal(other) -> Surreal_method(op, self, other, same, f)
      [] OTHER -> NotImplemented

\* DyadicFractionSurreal.__lt__: True as soon as one dyadic item of the set
\* (the operand itself, or the operand's left set) is >= self
DyadicFractionSurreal_lt(self, other, same, f) ==
    LET surreal_set == IF IsSurrealSet(other) THEN other
                       ELSE IF IsSurreal(other) THEN left(other)
                       ELSE EmptySurrealSet
    IN  CASE surreal_set.k = "DyadicsType" -> Exc("TypeError")
          [] \E i \in 1..Len(Items(surreal_set)) :
                /\ IsDyadicSurreal(Items(surreal_set)[i])
                /\ FrLe(Value(self), Value(Items(surreal_set)[i])) -> PyBool(TRUE)
          [] OTHER -> DyadicFractionSurreal_binary_op("lt", self, other, same, f)

\* DyadicFractionSurreal.__gt__: True as soon as one dyadic item of the set
\* (the operand itself, or the operand's right set) is <= self
DyadicFractionSurreal_gt(self, other, same, f) ==
    LET surreal_set == IF IsSurrealSet(other) THEN other
                       ELSE IF IsSurreal(other) THEN right(other)
                       ELSE EmptySurrealSet
    IN  CASE surreal_set.k = "DyadicsType" -> Exc("TypeError")
          [] \E i \in 1..Len(Items(surreal_set)) :
                /\ IsDyadicSurreal(Items(surreal_set)[i])
                /\ FrLe(Value(Items(surreal_set)[i]), Value(self)) -> PyBool(TRUE)
          [] OTHER -> DyadicFractionSurreal_binary_op("gt", self, other, same, f)

\* FiniteSurrealSet.__le__/__ge__/__lt__/__gt__: all(i op value for i in self)
FiniteSurrealSet_cmp(op, items, i, value, f) ==
    IF i > Len(items) THEN PyBool(TRUE)
    ELSE AllStep(PyCmp(op, items[i], value, FALSE, f),
                 FiniteSurrealSet_cmp(op, items, i + 1, value, f))

\* ExplicitSurrealSet.__contains__: item in self._items (identity, then ==)
ExplicitSurrealSet_contains(items, i, item, f) ==
    CASE i > Len(items) -> PyBool(FALSE)
      [] items[i].k = "OmegaType" /\ item.k = "OmegaType" /\ items[i] = item ->
            PyBool(TRUE)
      [] OTHER ->
            ContainsStep(PyCmp("eq", items[i], item, FALSE, f),
                         ExplicitSurrealSet_contains(items, i + 1, item, f))

\* variant: omega in the operand's left set is not recognised
DyadicsType_lt_unresolved(other, f) ==
    IF other.k = "OmegaType" \/ IsDyadicSurreal(other) THEN PyBool(FALSE)
    ELSE NotImplemented

\* DyadicsType.__lt__
DyadicsType_lt(other, f) ==
    CASE other.k = "OmegaType" -> PyBool(FALSE)
      [] IsDyadicSurreal(other) -> PyBool(FALSE)
      [] IsSurreal(other) ->
            ContainsStep(IF left(other).k = "DyadicsType"
                         THEN PyBool(form_is_dyadic(OMEGA))
                         ELSE ExplicitSurrealSet_contains(Items(left(other)), 1,
                                                          OMEGA, f),
                         NotImplemented)
      [] OTHER -> NotImplemented

\* Python's evaluation of "a + b" and "a - b" for a form or a set a and a
\* form or a set b: the method of a, then the reflected method of a set b.
\* The evaluation nests two calls before the next "+" or "-" is evaluated
\* (the method and, inside it, the set's generator or the decorated Surreal
\* method), so it takes two units of f.
PyArith(op, a, b, f) ==
    CASE f <= 1 -> Exc("RecursionError")
      [] a.k \in {"EmptySurrealSet", "ExplicitSurrealSet"} ->
            FiniteSurrealSet_arith(op, Items(a), 1, b, FALSE, f - 2)
      [] a.k = "DyadicsType" -> Exc("TransfiniteError")
      [] IsSurreal(a) /\ IsSurreal(b) -> Method(op, a, b, FALSE, f - 2)
      [] IsSurreal(a) /\ IsSurrealSet(b) ->
            BinaryDispatch(Method(op, a, b, FALSE, f - 2),
                           IF b.k = "DyadicsType" THEN Exc("TransfiniteError")
                           ELSE FiniteSurrealSet_arith(op, Items(b), 1, a, TRUE, f - 2),
                           Exc("TypeError"))

\* FiniteSurrealSet.__add__ and __sub__ (swap = FALSE: i op value) and
\* __radd__ and __rsub__ (swap = TRUE: value op i), from the i-th item on
FiniteSurrealSet_arith(op, items, i, value, swap, f) ==
    IF i > Len(items) THEN ExplicitSurrealSet(<<>>)
    ELSE CollectStep(IF swap THEN PyArith(op, value, items[i], f)
                     ELSE PyArith(op, items[i], value, f),
                     FiniteSurrealSet_arith(op, items, i + 1, value, swap, f))

\* SurrealSet.__neg__, which DyadicsType inherits
SurrealSet_neg(self) == Exc("TransfiniteError")

\* ------------------------------------------------------------ set methods
\* the raise statement: an operand that is not an exception is a TypeError
\* ("exceptions must derive from BaseException"); an exception raised while
\* the operand is evaluated propagates
Raise(v) == IF IsExc(v) THEN v ELSE Exc("TypeError")

\* one step of min()/max(): the comparison's exception propagates, a truthy
\* comparison takes the item as the new best
MinMaxStep(r, taken, kept) ==
    CASE r.k = "exc" -> r
      [] Truthy(r) -> taken
      [] OTHER -> kept

\* the builtins min(iterable) (op = "lt": item < best) and max(iterable)
\* (op = "gt": item > best) from the i-th item on
RECURSIVE PyMinMax(_, _, _, _, _)
PyMinMax(op, items, i, best, f) ==
    IF i > Len(items) THEN best
    ELSE MinMaxStep(PyCmp(op, items[i], best, FALSE, f),
                    PyMinMax(op, items, i + 1, items[i], f),
                    PyMinMax(op, items, i + 1, best, f))

\* FiniteSurrealSet.smallest: raise min(self) if self else None
FiniteSurrealSet_smallest(self) ==
    Raise(IF Len(Items(self)) > 0
          THEN PyMinMax("lt", Items(self), 2, Items(self)[1], MaxDepth)
          ELSE PyNone)

\* FiniteSurrealSet.largest: raise max(self) if self else None
FiniteSurrealSet_largest(self) ==
    Raise(IF Len(Items(self)) > 0
          THEN PyMinMax("gt", Items(self), 2, Items(self)[1], MaxDepth)
          ELSE PyNone)

\* ---------------------------------------------------------------- birthday
\* birthday(): IntegerSurreal and DyadicFractionSurreal return abs(self._value)
\* (an int, a Fraction), OmegaType returns OMEGA, OmegaPlusInteger the form
\* with a positive addend, BasicSurreal raises NotImplementedError
birthday(self) ==
    CASE self.k = "IntegerSurreal" -> PyInt(Abs(self.v))
      [] self.k = "DyadicFractionSurreal" -> PyFraction(Abs(self.n), self.d)
      [] self.k = "OmegaType" -> OMEGA
      [] self.k = "OmegaPlusInteger" ->
            IF self.addend > 0 THEN self ELSE OmegaPlusInteger(-self.addend)
      [] self.k = "BasicSurreal" -> Exc("NotImplementedError")

\* birthday_finite()
birthday_finite(self) ==
    CASE IsDyadicSurreal(self) -> PyBool(TRUE)
      [] self.k \in {"OmegaType", "OmegaPlusInteger"} -> PyBool(FALSE)
      [] self.k = "BasicSurreal" -> Exc("NotImplementedError")

\* ---------------------------------------------------------------- division
\* IntegerSurreal.__truediv__
IntegerSurreal_truediv(self, other) ==
    IF other.k \in {"IntegerSurreal", "int"} /\ is_power_of_2(other.v)
    THEN IF other.v = 0 THEN Exc("ZeroDivisionError")
         ELSE DyadicFractionSurreal(Fraction(self.v, other.v))
    ELSE IF other.k \in {"DyadicFractionSurreal", "Fraction"} /\ is_power_of_2(other.n)
    THEN IF other.n = 0 THEN Exc("ZeroDivisionError")
         ELSE DyadicFractionSurreal(Fraction(self.v * other.d, other.n))
    ELSE Method("truediv", self, other, FALSE, MaxDepth)

\* DyadicFractionSurreal.__truediv__
DyadicFractionSurreal_truediv(self, other) ==
    Method("truediv", self, other, FALSE, MaxDepth)

\* Python's evaluation of "a / b" for two canonical dyadic forms
PyTruediv(a, b) ==
    IF a.k = "IntegerSurreal" THEN IntegerSurreal_truediv(a, b)
    ELSE DyadicFractionSurreal_truediv(a, b)

\* ------------------------------------------------------- native conversions
\* Fraction.__trunc__
Fraction_trunc(fr) ==
    IF fr[1] < 0 THEN -((-fr[1]) \div fr[2]) ELSE fr[1] \div fr[2]

\* variant: rounding toward minus infinity
DyadicFractionSurreal_floor(self) == IntegerSurreal(self.n \div self.d)

\* DyadicFractionSurreal.__trunc__
DyadicFractionSurreal_trunc(self) == IntegerSurreal(Fraction_trunc(Value(self)))

\* int(x): IntegerSurreal.__int__, or __trunc__ and the int of its result
PyIntOf(x) ==
    CASE x.k = "IntegerSurreal" -> PyInt(x.v)
      [] x.k = "DyadicFractionSurreal" -> PyInt(DyadicFractionSurreal_trunc(x).v)
      [] x.k = "int" -> x
      [] x.k \in {"float", "Fraction"} -> PyInt(Fraction_trunc(<<x.n, x.d>>))

\* float(x): IntegerSurreal.__float__, DyadicFractionSurreal.__float__
PyFloatOf(x) ==
    CASE x.k = "IntegerSurreal" -> PyFloat(x.v, 1)
      [] x.k = "DyadicFractionSurreal" -> PyFloat(x.n, x.d)
      [] x.k = "int" -> PyFloat(x.v, 1)
      [] x.k \in {"float", "Fraction"} -> PyFloat(x.n, x.d)

\* ------------------------------------------------------------------ inputs
RECURSIVE Pow2(_)
Pow2(e) == IF e = 0 THEN 1 ELSE 2 * Pow2(e - 1)

\* the dyadic rationals of the bounds, in lowest terms
DyadicRationals ==
    {<<v, 1>> : v \in -MaxInt..MaxInt} \cup
    {fr \in UNION {{<<n, Pow2(e)>> : n \in -MaxInt * Pow2(e)..MaxInt * Pow2(e)} :
                   e \in 1..MaxDenExp} : fr[1] % 2 = 1}

\* each dyadic rational as an int, a float and a Fraction
NativeDyadics ==
    {PyInt(fr[1]) : fr \in {q \in DyadicRationals : q[2] = 1}} \cup
    {PyFloat(fr[1], fr[2]) : fr \in DyadicRationals} \cup
    {PyFraction(fr[1], fr[2]) : fr \in DyadicRationals}

\* Fractions that are not dyadic
NonDyadicFractions == {PyFraction(1, 3), PyFraction(2, 3), PyFraction(-1, 3)}

\* operands that are not Surreal and that convert() does not turn into one
Foreign == {PyStr, PyNone, PyList(<<>>)} \cup NonDyadicFractions

BinaryOps == CmpOps \cup {"add", "sub"}

\* the canonical dyadic forms, the transfinite forms, and for each of them
\* the BasicSurreal built from its own left and right sets
CanonicalDyadics == {convert(p) : p \in NativeDyadics}
Transfinite ==
    {OMEGA, NEGATIVE_OMEGA} \cup
    {OmegaPlusInteger(n) : n \in (-MaxAddend..MaxAddend) \ {0}}
Generic(x) == BasicSurreal(left(x), right(x))
Forms ==
    CanonicalDyadics \cup Transfinite \cup
    {Generic(x) : x \in CanonicalDyadics \cup Transfinite}

\* finite surreal sets: empty, one item, two integer items
FiniteSurrealSets ==
    {EmptySurrealSet, ExplicitSurrealSet(<<>>)} \cup
    {ExplicitSurrealSet(<<x>>) : x \in CanonicalDyadics \cup Transfinite} \cup
    {ExplicitSurrealSet(<<IntegerSurreal(m), IntegerSurreal(n)>>) :
        m \in -MaxInt..MaxInt, n \in -MaxInt..MaxInt}

\* dyadic rationals one level finer than the inputs, as ints and Fractions
FinerDyadics ==
    {PyInt(v) : v \in -MaxInt..MaxInt} \cup
    {PyFraction(fr[1], fr[2]) :
        fr \in {q \in UNION {{<<n, Pow2(e)>> : n \in -MaxInt * Pow2(e)..MaxInt * Pow2(e)} :
                             e \in 1..MaxDenExp + 1} : q[1] % 2 = 1}}

\* the exact rational a native number holds
Rational(p) == IF p.k = "int" THEN <<p.v, 1>> ELSE <<p.n, p.d>>

None == [k |-> "none"]

VARIABLES args, call, result
vars == <<args, call, result>>

\* ----------------------------------------------------------------- actions
\* float(Surreal(q)) and int(Surreal(q))
RoundTrip ==
    /\ call = "input" /\ Len(args) = 1 /\ args[1] \in NativeDyadics
    /\ call' = "RoundTrip"
    /\ result' = [float |-> PyFloatOf(convert(args[1])),
                  int |-> PyIntOf(convert(args[1]))]
    /\ UNCHANGED args

\* (w + n == Surreal(w + (n - 1), [])) and the same with the operands swapped
OmegaPlusEquiv ==
    /\ call = "input" /\ Len(args) = 1 /\ args[1].k = "int"
    /\ args[1].v \in 1..MaxAddend
    /\ LET n == args[1].v
           lhs == OmegaType_add(OMEGA, PyInt(n))
           pred == IF n = 1 THEN OMEGA ELSE OmegaType_add(OMEGA, PyInt(n - 1))
           generic == BasicSurreal_init(pred, PyList(<<>>))
       IN  result' = [fwd |-> PyCmp("eq", lhs, generic, FALSE, MaxDepth),
                      rev |-> PyCmp("eq", generic, lhs, FALSE, MaxDepth)]
    /\ call' = "OmegaPlusEquiv"
    /\ UNCHANGED args

\* Surreal(p) / Surreal(q)
Divide ==
    /\ call = "input" /\ Len(args) = 2 /\ args[1] \in NativeDyadics
    /\ LET a == convert(args[1])
           b == convert(args[2])
       IN  result' = CASE IsExc(a) -> a
                       [] IsExc(b) -> b
                       [] OTHER -> PyTruediv(a, b)
    /\ call' = "Divide"
    /\ UNCHANGED args

\* x.__op__(y) for an operand y that is not a Surreal
ForeignOperand ==
    /\ call = "input" /\ Len(args) = 2 /\ IsSurreal(args[1]) /\ args[2] \in Foreign
    /\ \E op \in BinaryOps :
          result' = [op |-> op, r |-> Method(op, args[1], args[2], FALSE, MaxDepth)]
    /\ call' = "ForeignOperand"
    /\ UNCHANGED args

\* Surreal(p) == Surreal(q)
ConvertEq ==
    /\ call = "input" /\ Len(args) = 2
    /\ args[1] \in NativeDyadics /\ args[2] \in NativeDyadics
    /\ result' = PyCmp("eq", convert(args[1]), convert(args[2]), FALSE, MaxDepth)
    /\ call' = "ConvertEq"
    /\ UNCHANGED args

\* Surreal(p) <= Surreal(q), and the same comparison between the
\* BasicSurreal forms built from the operands' left and right sets
FastPathVsGeneric ==
    /\ call = "input" /\ Len(args) = 2
    /\ args[1] \in NativeDyadics /\ args[2] \in NativeDyadics
    /\ LET a == convert(args[1])
           b == convert(args[2])
       IN  result' = [fast |-> PyCmp("le", a, b, FALSE, MaxDepth),
                      generic |-> PyCmp("le", Generic(a), Generic(b), FALSE, MaxDepth)]
    /\ call' = "FastPathVsGeneric"
    /\ UNCHANGED args

\* Surreal(l, r) == Surreal(m) and Surreal(m) == Surreal(l, r)
Bounding ==
    /\ call = "input" /\ Len(args) = 3
    /\ LET form == BasicSurreal_init(args[1], args[2])
           m == convert(args[3])
       IN  result' = [fwd |-> PyCmp("eq", form, m, FALSE, MaxDepth),
                      rev |-> PyCmp("eq", m, form, FALSE, MaxDepth)]
    /\ call' = "Bounding"
    /\ UNCHANGED args

\* a == b, a <= b and b <= a; one argument stands for a compared with itself
Equality ==
    /\ call = "input" /\ Len(args) \in {1, 2}
    /\ \A i \in 1..Len(args) : IsSurreal(args[i])
    /\ LET a == args[1]
           b == args[Len(args)]
           same == Len(args) = 1
       IN  result' = [eq |-> PyCmp("eq", a, b, same, MaxDepth),
                      le |-> PyCmp("le", a, b, same, MaxDepth),
                      ge |-> PyCmp("le", b, a, same, MaxDepth)]
    /\ call' = "Equality"
    /\ UNCHANGED args

\* x < S and x > S for a finite set S
SetCompare ==
    /\ call = "input" /\ Len(args) = 2 /\ IsSurreal(args[1]) /\ args[2] \in FiniteSurrealSets
    /\ result' = [lt |-> PyCmp("lt", args[1], args[2], FALSE, MaxDepth),
                  gt |-> PyCmp("gt", args[1], args[2], FALSE, MaxDepth)]
    /\ call' = "SetCompare"
    /\ UNCHANGED args

\* S.smallest() and S.largest() for a finite set S
Extremes ==
    /\ call = "input" /\ Len(args) = 1 /\ args[1] \in FiniteSurrealSets
    /\ result' = [smallest |-> FiniteSurrealSet_smallest(args[1]),
                  largest |-> FiniteSurrealSet_largest(args[1])]
    /\ call' = "Extremes"
    /\ UNCHANGED args

\* x.birthday() and x.birthday_finite()
Birthdays ==
    /\ call = "input" /\ Len(args) = 1 /\ IsSurreal(args[1])
    /\ result' = [birthday |-> birthday(args[1]),
                  finite |-> birthday_finite(args[1])]
    /\ call' = "Birthdays"
    /\ UNCHANGED args

\* x op y for two canonical dyadic forms and a comparison, + or -
DyadicOp ==
    /\ call = "input" /\ Len(args) = 2
    /\ args[1] \in CanonicalDyadics /\ args[2] \in CanonicalDyadics
    /\ \E op \in BinaryOps :
          result' = [op |-> op,
                     r |-> IF op \in CmpOps
                           THEN PyCmp(op, args[1], args[2], FALSE, MaxDepth)
                           ELSE PyArith(op, args[1], args[2], MaxDepth)]
    /\ call' = "DyadicOp"
    /\ UNCHANGED args

\* (w + n).left and (w + n).right for a nonzero int n
OmegaSets ==
    /\ call = "input" /\ Len(args) = 1 /\ args[1].k = "int"
    /\ LET form == OmegaType_add(OMEGA, args[1])
       IN  result' = IF IsExc(form) THEN form
                     ELSE [left |-> left(form), right |-> right(form)]
    /\ call' = "OmegaSets"
    /\ UNCHANGED args

\* the operations on DYADICS: -DYADICS, and DYADICS op x (side = "left") or
\* x op DYADICS (side = "right") for a comparison, + or -
DyadicsOps ==
    {<<"neg", "left">>} \cup
    ({"lt", "le", "gt", "ge", "add", "sub"} \X {"left", "right"})

DyadicsOp ==
    /\ call = "input" /\ Len(args) = 1 /\ IsSurreal(args[1])
    /\ \E o \in DyadicsOps :
          LET a == IF o[2] = "left" THEN DYADICS ELSE args[1]
              b == IF o[2] = "left" THEN args[1] ELSE DYADICS
          IN  result' = [op |-> o[1], side |-> o[2],
                         r |-> CASE o[1] = "neg" -> SurrealSet_neg(DYADICS)
                                 [] o[1] \in CmpOps -> PyCmp(o[1], a, b, FALSE, MaxDepth)
                                 [] OTHER -> PyArith(o[1], a, b, MaxDepth)]
    /\ call' = "DyadicsOp"
    /\ UNCHANGED args

\* d < w, -w < d and w <= d for a canonical dyadic form d
OmegaCompare ==
    /\ call = "input" /\ Len(args) = 1 /\ IsDyadicSurreal(args[1])
    /\ result' = [below |-> PyCmp("lt", args[1], OMEGA, FALSE, MaxDepth),
                  above |-> PyCmp("lt", NEGATIVE_OMEGA, args[1], FALSE, MaxDepth),
                  le |-> PyCmp("le", OMEGA, args[1], FALSE, MaxDepth)]
    /\ call' = "OmegaCompare"
    /\ UNCHANGED args

\* x / y for two canonical dyadic forms
Quotient ==
    /\ call = "input" /\ Len(args) = 2
    /\ args[1] \in CanonicalDyadics /\ args[2] \in CanonicalDyadics
    /\ result' = PyTruediv(args[1], args[2])
    /\ call' = "Quotient"
    /\ UNCHANGED args

\* x.left and x.right
Members ==
    /\ call = "input" /\ Len(args) = 1 /\ IsSurreal(args[1])
    /\ result' = [left |-> left(args[1]), right |-> right(args[1])]
    /\ call' = "Members"
    /\ UNCHANGED args

\* ------------------------------------------------------------ specifications
\* conversions, division, the omega forms and foreign operands
Init ==
    /\ args \in {<<p>> : p \in NativeDyadics} \cup
                {<<p, q>> : p \in NativeDyadics, q \in NativeDyadics \cup NonDyadicFractions} \cup
                {<<x, y>> : x \in Forms, y \in Foreign}
    /\ call = "input"
    /\ result = None

Next == RoundTrip \/ OmegaPlusEquiv \/ Divide \/ ForeignOperand

Spec == Init /\ [][Next]_vars

\* comparisons between forms
InitCompare ==
    /\ args \in {<<p, q>> : p \in NativeDyadics, q \in NativeDyadics} \cup
                {<<l, r, m>> \in FinerDyadics \X FinerDyadics \X FinerDyadics :
                    /\ {l, r} \subseteq NativeDyadics
                    /\ FrLt(Rational(l), Rational(m)) /\ FrLt(Rational(m), Rational(r))} \cup
                {<<a>> : a \in Forms} \cup
                {<<a, b>> : a \in Forms, b \in Forms} \cup
                {<<x, S>> : x \in Forms, S \in FiniteSurrealSets}
    /\ call = "input"
    /\ result = None

NextCompare == ConvertEq \/ FastPathVsGeneric \/ Bounding \/ Equality \/ SetCompare

SpecCompare == InitCompare /\ [][NextCompare]_vars

\* the methods of the forms and of their sets
InitForms ==
    /\ args \in {<<S>> : S \in FiniteSurrealSets} \cup
                {<<x>> : x \in Forms} \cup
                {<<PyInt(n)>> : n \in (-MaxAddend..MaxAddend) \ {0}} \cup
                {<<x, y>> : x \in CanonicalDyadics, y \in CanonicalDyadics}
    /\ call = "input"
    /\ result = None

NextForms ==
    \/ Extremes \/ Birthdays \/ DyadicOp \/ OmegaSets \/ DyadicsOp \/ OmegaCompare
    \/ Quotient \/ Members

SpecForms == InitForms /\ [][NextForms]_vars

\* --------------------------------------------------------------- properties
\* the evaluation returned a truthy value (it did not raise)
Holds(r) == ~IsExc(r) /\ Truthy(r)

RECURSIVE Log2(_)
Log2(d) == IF d <= 1 THEN 0 ELSE 1 + Log2(d \div 2)

\* the day a dyadic rational in lowest terms is born
Birthday(fr) ==
    IF fr[2] = 1 THEN Abs(fr[1])
    ELSE (Abs(fr[1]) \div fr[2]) + 1 + Log2(fr[2])

\* the dyadic rationals strictly between l and r, and the earliest born one
Between(l, r) ==
    {m \in FinerDyadics : /\ FrLt(Rational(l), Rational(m))
                          /\ FrLt(Rational(m), Rational(r))}
Simplest(l, r) ==
    CHOOSE m \in Between(l, r) :
        \A m2 \in Between(l, r) : Birthday(Rational(m)) <= Birthday(Rational(m2))

\* the integer part of n/d, rounding toward zero
TruncTowardZero(fr) ==
    CHOOSE z \in -Abs(fr[1])..Abs(fr[1]) :
        /\ Abs(z) * fr[2] <= Abs(fr[1]) /\ Abs(fr[1]) < (Abs(z) + 1) * fr[2]
        /\ z * fr[1] >= 0

\* C1: for dyadic rationals p and q, each given as an int, a float or a
\* Fraction, Surreal(p) == Surreal(q) is truthy exactly when p and q are the
\* same rational, and is falsy without raising when they differ
ConvertEqIsRationalEq ==
    call = "ConvertEq" =>
        /\ ~IsExc(result)
        /\ Truthy(result) <=> FrEq(Rational(args[1]), Rational(args[2]))

ConvertEqRecursionError ==
    /\ call = "ConvertEq" /\ args = <<PyInt(1), PyFraction(1, 2)>>
    /\ result = Exc("RecursionError")

\* C2: for dyadic a and b, a <= b between the canonical forms and between the
\* BasicSurreal forms with the same left and right sets give the same truth
\* value, which is the order of the two rationals
FastPathAgreesWithGeneric ==
    call = "FastPathVsGeneric" =>
        LET order == FrLe(Rational(args[1]), Rational(args[2]))
        IN  /\ ~IsExc(result.fast) /\ ~IsExc(result.generic)
            /\ Truthy(result.fast) <=> order
            /\ Truthy(result.generic) <=> order

FastPathRecursionError ==
    /\ call = "FastPathVsGeneric" /\ args = <<PyInt(0), PyFraction(1, 2)>>
    /\ result.fast = Exc("RecursionError")

\* C3: for dyadics l < r, Surreal(l, r) == Surreal(m) holds in either operand
\* order when m is the earliest born dyadic strictly between l and r
BoundingIsSimplest ==
    call = "Bounding" /\ args[3] = Simplest(args[1], args[2]) =>
        Holds(result.fwd) /\ Holds(result.rev)

BoundingRecursionError ==
    /\ call = "Bounding" /\ args = <<PyInt(0), PyInt(1), PyFraction(1, 2)>>
    /\ result.fwd = Exc("RecursionError")

\* C4 as stated: for every n >= 1, omega + n == Surreal(omega + (n - 1), [])
OmegaPlusEquivEveryN ==
    call = "OmegaPlusEquiv" => Holds(result.fwd)

\* C4: omega + 1 == Surreal(omega, []) holds in either operand order; for
\* n >= 2 the comparison of omega + n with Surreal(omega + (n - 1), []) raises
\* TypeError in either operand order
OmegaPlusEquivOnlyOne ==
    call = "OmegaPlusEquiv" =>
        IF args[1].v = 1
        THEN Holds(result.fwd) /\ Holds(result.rev)
        ELSE result.fwd = Exc("TypeError") /\ result.rev = Exc("TypeError")

OmegaPlusTwoRaises ==
    /\ call = "OmegaPlusEquiv" /\ args[1].v = 2
    /\ result.fwd = Exc("TypeError")

\* C5: dividing a canonical dyadic by a nonzero canonical dyadic whose exact
\* quotient is not a dyadic rational raises an error
NonDyadicQuotientRaises ==
    LET p == Rational(args[1])
        q == Rational(args[2])
    IN  /\ call = "Divide" /\ args[2] \in NativeDyadics /\ q[1] # 0
        /\ ~is_dyadic(Fraction(p[1] * q[2], p[2] * q[1]))
        => IsExc(result)

OneThirdIsFloat ==
    /\ call = "Divide" /\ args = <<PyInt(1), PyInt(3)>>
    /\ result = PyFloat(1, 3)

\* C6: an integer surreal divided by a nonzero integer that is not a power of
\* two, or by a fraction that is not dyadic, returns a Surreal without raising
DivisionReturnsSurreal ==
    /\ call = "Divide" /\ args[1].k = "int"
    /\ \/ args[2].k = "int" /\ args[2].v # 0 /\ ~is_power_of_2(Abs(args[2].v))
       \/ args[2] \in NonDyadicFractions
    => IsSurreal(result)

DivideByTwoThirdsRaises ==
    /\ call = "Divide" /\ args = <<PyInt(1), PyFraction(2, 3)>>
    /\ result = Exc("NotImplementedError")

\* C7: for every dyadic rational q, float(Surreal(q)) is the float of q and
\* int(Surreal(q)) is q rounded toward zero
RoundTripLossless ==
    call = "RoundTrip" =>
        LET q == Rational(args[1])
        IN  /\ result.float = PyFloat(q[1], q[2])
            /\ result.int = PyInt(TruncTowardZero(q))

RoundTripNegativeFraction ==
    /\ call = "RoundTrip" /\ args[1] = PyFraction(-3, 2)
    /\ result.int = PyInt(-1) /\ result.float = PyFloat(-3, 2)

\* C8: for surreal numbers a and b of any form, the same object included,
\* a == b is true exactly when a <= b and b <= a are both true
EqIffLeBothWays ==
    call = "Equality" =>
        (Holds(result.eq) <=> Holds(result.le) /\ Holds(result.ge))

OmegaEqualButNotLe ==
    /\ call = "Equality" /\ args = <<OMEGA>>
    /\ result.eq = PyBool(TRUE) /\ result.le = PyBool(FALSE)

\* C9: for a surreal number x and a finite set S, x < S is true exactly when
\* x < e is true of every item e of S, and x > S exactly when x > e is true of
\* every item; both are true of the empty set
SetCompareIsUniversal ==
    call = "SetCompare" =>
        LET x == args[1]
            items == Items(args[2])
        IN  /\ Holds(result.lt) <=>
                   \A i \in 1..Len(items) : Holds(PyCmp("lt", x, items[i], FALSE, MaxDepth))
            /\ Holds(result.gt) <=>
                   \A i \in 1..Len(items) : Holds(PyCmp("gt", x, items[i], FALSE, MaxDepth))

HalfBelowItsOwnSet ==
    /\ call = "SetCompare"
    /\ args = <<DyadicFractionSurreal(<<1, 2>>),
                ExplicitSurrealSet(<<DyadicFractionSurreal(<<1, 2>>)>>)>>
    /\ result.lt = PyBool(TRUE)

\* C10: an operator of Surreal (==, <=, <, >=, >, +, -) called on a form that
\* does not override it, with an operand that is not a Surreal and cannot be
\* converted to one, returns NotImplemented
ForeignOperandNotImplemented ==
    /\ call = "ForeignOperand"
    /\ args[1].k \in {"OmegaType", "OmegaPlusInteger", "BasicSurreal"}
    /\ ~(args[1].k = "OmegaType" /\ result.op = "add")
    => result.r = NotImplemented

StringOperandRaises ==
    /\ call = "ForeignOperand"
    /\ args = <<BasicSurreal(EmptySurrealSet, EmptySurrealSet), PyStr>>
    /\ result = [op |-> "eq", r |-> Exc("NotImplementedError")]

\* C11: on a finite set, smallest() returns the minimum item and largest()
\* the maximum item (here for sets of canonical dyadic forms, ordered by
\* their values), and both return None on an empty set
ExtremesAreMinMax ==
    call = "Extremes" =>
        LET items == Items(args[1])
            n == Len(items)
        IN  /\ n = 0 => result.smallest = PyNone /\ result.largest = PyNone
            /\ (n > 0 /\ \A i \in 1..n : IsDyadicSurreal(items[i])) =>
                  /\ \E i \in 1..n :
                        /\ result.smallest = items[i]
                        /\ \A j \in 1..n : FrLe(Value(items[i]), Value(items[j]))
                  /\ \E i \in 1..n :
                        /\ result.largest = items[i]
                        /\ \A j \in 1..n : FrLe(Value(items[j]), Value(items[i]))

\* smallest() and largest() of the two-item set {1, 2} raise TypeError
ExtremesOfPairRaise ==
    /\ call = "Extremes"
    /\ args[1] = ExplicitSurrealSet(<<IntegerSurreal(1), IntegerSurreal(2)>>)
    /\ result.smallest = Exc("TypeError")
    /\ result.largest = Exc("TypeError")

\* C12: birthday() of a canonical dyadic form is its finite birthday as a
\* Python int (abs(n) for the integer n) and birthday_finite() is True
BirthdayIsFiniteInt ==
    (call = "Birthdays" /\ IsDyadicSurreal(args[1])) =>
        /\ result.finite = PyBool(TRUE)
        /\ result.birthday = PyInt(Birthday(Value(args[1])))

\* birthday() of the form 1/2 is Fraction(1, 2), not the day 2
HalfBirthdayIsFraction ==
    /\ call = "Birthdays"
    /\ args[1] = DyadicFractionSurreal(<<1, 2>>)
    /\ result.birthday = PyFraction(1, 2)
    /\ Birthday(<<1, 2>>) = 2

\* C13: every comparison, addition and subtraction between two canonical
\* dyadic forms terminates with a result: the recursion never exhausts the
\* interpreter's stack and no other exception is raised
DyadicOpTerminates ==
    call = "DyadicOp" => ~IsExc(result.r)

\* 0 + 1/2, an IntegerSurreal with a DyadicFractionSurreal, ends in
\* RecursionError
MixedAddRecursionError ==
    /\ call = "DyadicOp"
    /\ args = <<IntegerSurreal(0), DyadicFractionSurreal(<<1, 2>>)>>
    /\ result.op = "add"
    /\ result.r = Exc("RecursionError")

\* C14: the left and right sets of w + n follow the table for every nonzero
\* offset n: w + 1 has left {w}; w + n (n > 1) has left {w + (n - 1)} and an
\* empty right; w - 1 has left DYADICS and right {w}; w - n (n > 1) has left
\* DYADICS and right {w - (n - 1)}
OmegaSetsFollowTable ==
    call = "OmegaSets" =>
        LET n == args[1].v
        IN  /\ n = 1 => result.left = ExplicitSurrealSet(<<OMEGA>>)
            /\ n > 1 =>
                  /\ result.left = ExplicitSurrealSet(<<OmegaPlusInteger(n - 1)>>)
                  /\ result.right = EmptySurrealSet
            /\ n = -1 =>
                  /\ result.left = DYADICS
                  /\ result.right = ExplicitSurrealSet(<<OMEGA>>)
            /\ n < -1 =>
                  /\ result.left = DYADICS
                  /\ result.right = ExplicitSurrealSet(<<OmegaPlusInteger(n + 1)>>)

\* the left set of w - 2 is {w - 1}, the same as its right set
OmegaMinusTwoLeft ==
    /\ call = "OmegaSets"
    /\ args[1] = PyInt(-2)
    /\ result.left = ExplicitSurrealSet(<<OmegaPlusInteger(-1)>>)
    /\ result.right = result.left

\* C15: every operation on DYADICS other than membership and the "<" rule
\* raises TransfiniteError: -DYADICS; DYADICS <=, >, >=, +, - x; x <, <=, >=,
\* +, - DYADICS (x > DYADICS is the "<" rule reflected); and the comparison
\* d < w of a DyadicFractionSurreal d, whose __lt__ iterates the left set of
\* w, which is DYADICS
DyadicsOpsRaiseTransfiniteError ==
    /\ (call = "DyadicsOp" /\ result.side = "left" /\ result.op # "lt") =>
            result.r = Exc("TransfiniteError")
    /\ (call = "DyadicsOp" /\ result.side = "right" /\ result.op # "gt") =>
            result.r = Exc("TransfiniteError")
    /\ (call = "OmegaCompare" /\ args[1].k = "DyadicFractionSurreal") =>
            result.below = Exc("TransfiniteError")

\* 1/2 < DYADICS raises TypeError: DYADICS cannot be iterated
HalfBelowDyadicsTypeError ==
    /\ call = "DyadicsOp"
    /\ args[1] = DyadicFractionSurreal(<<1, 2>>)
    /\ result.op = "lt" /\ result.side = "right"
    /\ result.r = Exc("TypeError")

\* a DyadicFractionSurreal holds a non-integer with a power of two as its
\* denominator
ProperDyadicFraction(o) ==
    o.k = "DyadicFractionSurreal" => (o.d > 1 /\ is_power_of_2(o.d))

\* C16: every DyadicFractionSurreal that conversion, +, -, / or the left and
\* right sets of a form produce holds a non-integer value whose denominator
\* is a power of two
DyadicFractionsAreProper ==
    /\ \A i \in 1..Len(args) : ProperDyadicFraction(args[i])
    /\ (call = "DyadicOp" /\ result.op \in {"add", "sub"}) =>
            ProperDyadicFraction(result.r)
    /\ call = "Quotient" => ProperDyadicFraction(result)
    /\ call = "Members" =>
            /\ \A i \in 1..Len(Items(result.left)) :
                    ProperDyadicFraction(Items(result.left)[i])
            /\ \A i \in 1..Len(Items(result.right)) :
                    ProperDyadicFraction(Items(result.right)[i])

\* 2 / 1 is a DyadicFractionSurreal holding the integer 2
TwoOverOneIsFractionForm ==
    /\ call = "Quotient"
    /\ args = <<IntegerSurreal(2), IntegerSurreal(1)>>
    /\ result = DyadicFractionSurreal(<<2, 1>>)

\* C17: for every canonical dyadic form d, d < w and -w < d evaluate to true
\* and w <= d evaluates to false, none of them raising
OmegaBoundsDyadics ==
    call = "OmegaCompare" =>
        /\ Holds(result.below)
        /\ Holds(result.above)
        /\ ~IsExc(result.le) /\ ~Truthy(result.le)

\* 1 < w is True and w <= 1 is False, but -w < 1 raises TransfiniteError
MinusOmegaBelowOneRaises ==
    /\ call = "OmegaCompare"
    /\ args[1] = IntegerSurreal(1)
    /\ Holds(result.below)
    /\ result.above = Exc("TransfiniteError")
    /\ ~IsExc(result.le) /\ ~Truthy(result.le)

====
